---- MODULE Spec2Model ----
(***************************************************************************)
(* Model of pkg/service/clientservice (ClientService.FocusWindow, AgreeTos *)
(* and BootstrapStarterLayout) over the object store (wstore), the update  *)
(* journal carried by the context, and the event bus.                      *)
(*                                                                         *)
(* Every handler call is run by one process of Procs.  One action is one   *)
(* store or bus operation of the handler together with the local           *)
(* computation that follows it up to the next operation.                   *)
(***************************************************************************)
EXTENDS Integers, Sequences, FiniteSets, TLC

\* ------------------------------------------------------------------ bounds
\* number of window ids
MaxWindows == 3
\* number of handler calls (one per process)
NumProcs == 2
\* values time.Now().UnixMilli() may return
MaxTime == 1

\* len(starterLayout)
NumSteps == 7

Windows == 1..MaxWindows
Procs == 1..NumProcs
Times == 1..MaxTime

VARIABLES
    client,     \* the persisted Client singleton
    blocks,     \* the persisted Block objects
    observers,  \* window ids with a registered event-bus observer
    inbox,      \* events delivered to each window's observer, per sender
    pc,         \* position of each handler call
    op,         \* the handler a process runs
    arg,        \* FocusWindow's windowId argument
    journaled,  \* whether the call's context carries an update journal
    journal,    \* the update records of the call's context
    loc,        \* the call's local variables
    trace,      \* the store mutations and bus sends the call issued, in order
    ret,        \* the call's return value
    pre,        \* the store as it was when the call was made
    post,       \* the store as it was when the call returned
    view        \* one run of the wsh view / edit command

vars == <<client, blocks, observers, inbox,
          pc, op, arg, journaled, journal, loc, trace, ret, pre, post, view>>

\* ------------------------------------------------------------- values
Nil == "nil"
ErrGetClientData == "error getting client data"
ErrUpdateClientData == "error updating client data"
ErrDBUpdate == "dbupdate failed"
ErrFindClient == "unable to find client"
ErrNoWindows == "error bootstrapping layout, no windows exist"
ErrGetWindow == "error getting window"
ErrCreateBlock == "unable to create block for starter layout"
\* the bootstrap has not returned
NoResult == "none"

ClientOID == <<0, 0>>
NoOID == <<0, 1>>
NoTab == <<"tab", 0>>
NoClient == [WindowIds |-> <<>>, TosAgreed |-> 0]

Range(s) == {s[k] : k \in 1..Len(s)}
NoDup(s) == \A a, b \in 1..Len(s) : s[a] = s[b] => a = b

\* Window.ActiveTabId of window w
ActiveTabId(w) == <<"tab", w>>

\* the fixed seven steps: index path and block definition
starterLayout ==
    << [IndexArr |-> <<0>>,
        Meta |-> {<<"view", "term">>, <<"controller", "shell">>}],
       [IndexArr |-> <<1>>,
        Meta |-> {<<"view", "cpuplot">>}],
       [IndexArr |-> <<1, 1>>,
        Meta |-> {<<"view", "web">>,
                  <<"url", "https://github.com/wavetermdev/waveterm">>}],
       [IndexArr |-> <<1, 2>>,
        Meta |-> {<<"view", "preview">>, <<"file", "~">>}],
       [IndexArr |-> <<2>>,
        Meta |-> {<<"view", "term">>, <<"controller", "shell">>}],
       [IndexArr |-> <<2, 1>>,
        Meta |-> {<<"view", "waveai">>}],
       [IndexArr |-> <<2, 2>>,
        Meta |-> {<<"view", "web">>,
                  <<"url", "https://www.youtube.com/embed/cKqsw_sAsU8">>}] >>

\* ---------------------------------------------------------- utilfn
\* utilfn.SliceIdx: the 0-based index of the first x in s, -1 when absent
SliceIdx(s, x) ==
    IF \E k \in 1..Len(s) : s[k] = x
    THEN (CHOOSE k \in 1..Len(s) :
            s[k] = x /\ \A j \in 1..(k - 1) : s[j] # x) - 1
    ELSE -1

\* utilfn.MoveSliceIdxToFront: s with the element at 0-based idx moved to
\* the front; s itself when idx is 0 or out of range
MoveSliceIdxToFront(s, idx) ==
    IF idx <= 0 \/ idx >= Len(s)
    THEN s
    ELSE <<s[idx + 1]>> \o SubSeq(s, 1, idx) \o SubSeq(s, idx + 2, Len(s))

\* ---------------------------------------------------------- records
\* an Update Record of the journal
UpdateRec(utype, otype, oid) ==
    [UpdateType |-> utype, OType |-> otype, OID |-> oid]

\* one entry of a call's trace: a store mutation or a bus send it issued
TraceRec(kind, ok, oid, w, tab, path) ==
    [kind |-> kind, ok |-> ok, oid |-> oid, windowId |-> w,
     tabId |-> tab, IndexArr |-> path]

\* eventbus.WSEventType with its WSLayoutActionData (lines 178-187)
LayoutEvent(tab, oid, path) ==
    [EventType |-> "layoutaction", ActionType |-> "insertatindex",
     TabId |-> tab, BlockId |-> oid, IndexArr |-> path, NodeSize |-> 0]

\* a snapshot of the store: the client record and the ids of the blocks
Snap(c, b) == [client |-> c, blocks |-> {x.OID : x \in b}]

InitLoc ==
    [client |-> NoClient, clientData |-> NoClient, windowId |-> 0,
     tabId |-> NoTab, i |-> 0, blockOID |-> NoOID, bootErr |-> NoResult]

\* ------------------------------------------------------ store and bus
\* the journal of p's context after one more mutation: a record is
\* appended only when the context carries a journal
Journaled(p, rec) ==
    IF journaled[p] THEN Append(journal[p], rec) ELSE journal[p]

\* wstore.DBUpdate of the Client: a full replacement of the persisted record
DBUpdate(p, obj) ==
    /\ client' = obj
    /\ journal' = [journal EXCEPT
                     ![p] = Journaled(p, UpdateRec("update", "client", ClientOID))]

\* the object id given to the n-th block a call creates
NewOID(p, n) == <<p, n>>

\* objectservice.CreateBlock_NoUI: persists a new Block of tab `tab`
CreateBlock(p, tab, def, oid) ==
    /\ blocks' = blocks \cup {[OID |-> oid, TabId |-> tab, Meta |-> def]}
    /\ journal' = [journal EXCEPT
                     ![p] = Journaled(p, UpdateRec("update", "block", oid))]

\* eventbus.SendEventToWindow: delivered in order to the window's observer,
\* dropped when none is registered
SendEventToWindow(p, w, event) ==
    inbox' = IF w \in observers
             THEN [inbox EXCEPT ![w][p] = Append(@, event)]
             ELSE inbox

\* ------------------------------------------------------------ returns
\* the handler returns err with the update batch `updates`; used after the
\* step's store effect, so that post is the store as the call leaves it
Return(p, err, updates) ==
    /\ pc' = [pc EXCEPT ![p] = "done"]
    /\ ret' = [ret EXCEPT ![p] = [err |-> err, updates |-> updates]]
    /\ post' = [post EXCEPT ![p] = Snap(client', blocks')]

\* BootstrapStarterLayout returns err.  Called from AgreeTos (line 92) its
\* result is dropped and AgreeTos returns the journal's updates and nil
\* (line 93).
BootReturn(p, err) ==
    /\ loc' = [loc EXCEPT ![p].bootErr = err]
    /\ IF op[p] = "AgreeTos"
       THEN Return(p, Nil, journal'[p])
       ELSE Return(p, err, <<>>)

\* ------------------------------------------------------------- calls
\* processes are numbered in the order their calls are made
CanCall(p) ==
    /\ pc[p] = "idle"
    /\ \A q \in Procs : q < p => pc[q] # "idle"

CallFocusWindow(p, w) ==
    /\ CanCall(p)
    /\ pc' = [pc EXCEPT ![p] = "f_get"]
    /\ op' = [op EXCEPT ![p] = "FocusWindow"]
    /\ arg' = [arg EXCEPT ![p] = w]
    /\ pre' = [pre EXCEPT ![p] = Snap(client, blocks)]
    /\ UNCHANGED <<view, client, blocks, observers, inbox,
                   journaled, journal, loc, trace, ret, post>>

\* line 81: the context is wrapped with a journal
CallAgreeTos(p) ==
    /\ CanCall(p)
    /\ pc' = [pc EXCEPT ![p] = "a_get"]
    /\ op' = [op EXCEPT ![p] = "AgreeTos"]
    /\ journaled' = [journaled EXCEPT ![p] = TRUE]
    /\ pre' = [pre EXCEPT ![p] = Snap(client, blocks)]
    /\ UNCHANGED <<view, client, blocks, observers, inbox,
                   arg, journal, loc, trace, ret, post>>

\* the direct call wraps its context with a journal as AgreeTos does
CallBootstrapStarterLayout_Journaled(p) ==
    /\ CanCall(p)
    /\ pc' = [pc EXCEPT ![p] = "b_get"]
    /\ op' = [op EXCEPT ![p] = "BootstrapStarterLayout"]
    /\ journaled' = [journaled EXCEPT ![p] = TRUE]
    /\ pre' = [pre EXCEPT ![p] = Snap(client, blocks)]
    /\ UNCHANGED <<view, client, blocks, observers, inbox,
                   arg, journal, loc, trace, ret, post>>

CallBootstrapStarterLayout(p) ==
    /\ CanCall(p)
    /\ pc' = [pc EXCEPT ![p] = "b_get"]
    /\ op' = [op EXCEPT ![p] = "BootstrapStarterLayout"]
    /\ pre' = [pre EXCEPT ![p] = Snap(client, blocks)]
    /\ UNCHANGED <<view, client, blocks, observers, inbox,
                   arg, journaled, journal, loc, trace, ret, post>>

\* ------------------------------------------------------- FocusWindow
\* lines 68-76, with `absent` for the test of line 73 and `moved` for the
\* list of line 76: GetClientData, then the copy is reordered
FocusGetWith(p, absent, moved) ==
    /\ pc[p] = "f_get"
    /\ UNCHANGED <<view, client, blocks, observers, inbox,
                   op, arg, journaled, journal, trace, pre>>
    /\ \/ /\ Return(p, ErrGetClientData, <<>>)
          /\ UNCHANGED loc
       \/ IF absent
          THEN /\ loc' = [loc EXCEPT ![p].client = client]
               /\ Return(p, Nil, <<>>)
          ELSE /\ loc' = [loc EXCEPT ![p].client =
                            [client EXCEPT !.WindowIds = moved]]
               /\ pc' = [pc EXCEPT ![p] = "f_update"]
               /\ UNCHANGED <<ret, post>>

\* the element at idx exchanged with the first
SwapWithFront(s, idx) ==
    [k \in 1..Len(s) |->
        IF k = 1 THEN s[idx + 1] ELSE IF k = idx + 1 THEN s[1] ELSE s[k]]

\* the element at idx put in front and left where it was
InsertAtFront(s, idx) == <<s[idx + 1]>> \o s

FocusGet_Swap(p) ==
    LET winIdx == SliceIdx(client.WindowIds, arg[p]) IN
    FocusGetWith(p, winIdx = -1, SwapWithFront(client.WindowIds, winIdx))

FocusGet_Insert(p) ==
    LET winIdx == SliceIdx(client.WindowIds, arg[p]) IN
    FocusGetWith(p, winIdx = -1, InsertAtFront(client.WindowIds, winIdx))

\* the index taken as 1-based
FocusGet_OffByOne(p) ==
    LET winIdx == SliceIdx(client.WindowIds, arg[p]) IN
    FocusGetWith(p, winIdx = -1,
                 MoveSliceIdxToFront(client.WindowIds, winIdx + 1))

\* the check for an absent id (lines 73-75) left out
FocusGet_NoAbsentCheck(p) ==
    LET winIdx == SliceIdx(client.WindowIds, arg[p]) IN
    FocusGetWith(p, FALSE, MoveSliceIdxToFront(client.WindowIds, winIdx))

\* lines 68-76
FocusGet(p) ==
    LET winIdx == SliceIdx(client.WindowIds, arg[p]) IN
    FocusGetWith(p, winIdx = -1,
                 MoveSliceIdxToFront(client.WindowIds, winIdx))

\* line 77: DBUpdate of the modified copy
FocusUpdate(p) ==
    /\ pc[p] = "f_update"
    /\ UNCHANGED <<view, blocks, observers, inbox, op, arg, journaled, loc, pre>>
    /\ \/ /\ UNCHANGED <<client, journal>>
          /\ trace' = [trace EXCEPT ![p] = Append(@,
                TraceRec("update", FALSE, ClientOID, 0, NoTab, <<>>))]
          /\ Return(p, ErrDBUpdate, <<>>)
       \/ /\ DBUpdate(p, loc[p].client)
          /\ trace' = [trace EXCEPT ![p] = Append(@,
                TraceRec("update", TRUE, ClientOID, 0, NoTab, <<>>))]
          /\ Return(p, Nil, <<>>)

\* ---------------------------------------------------------- AgreeTos
\* lines 82-87: DBGetSingleton, then the timestamp is set on the copy
AgreeGet(p) ==
    /\ pc[p] = "a_get"
    /\ UNCHANGED <<view, client, blocks, observers, inbox,
                   op, arg, journaled, journal, trace, pre>>
    /\ \/ /\ Return(p, ErrGetClientData, <<>>)
          /\ UNCHANGED loc
       \/ \E timestamp \in Times :
          /\ loc' = [loc EXCEPT ![p].clientData =
                       [client EXCEPT !.TosAgreed = timestamp]]
          /\ pc' = [pc EXCEPT ![p] = "a_update"]
          /\ UNCHANGED <<ret, post>>

\* lines 88-92: DBUpdate, then BootstrapStarterLayout is entered
AgreeUpdate(p) ==
    /\ pc[p] = "a_update"
    /\ UNCHANGED <<view, blocks, observers, inbox, op, arg, journaled, loc, pre>>
    /\ \/ /\ UNCHANGED <<client, journal>>
          /\ trace' = [trace EXCEPT ![p] = Append(@,
                TraceRec("update", FALSE, ClientOID, 0, NoTab, <<>>))]
          /\ Return(p, ErrUpdateClientData, <<>>)
       \/ /\ DBUpdate(p, loc[p].clientData)
          /\ trace' = [trace EXCEPT ![p] = Append(@,
                TraceRec("update", TRUE, ClientOID, 0, NoTab, <<>>))]
          /\ pc' = [pc EXCEPT ![p] = "b_get"]
          /\ UNCHANGED <<ret, post>>

\* -------------------------------------------- BootstrapStarterLayout
\* the check for windows (lines 111-113) left out
BootGet_NoWindowCheck(p) ==
    /\ pc[p] = "b_get"
    /\ UNCHANGED <<view, client, blocks, observers, inbox,
                   op, arg, journaled, journal, trace, pre>>
    /\ \/ BootReturn(p, ErrFindClient)
       \/ /\ loc' = [loc EXCEPT ![p].client = client,
                                ![p].windowId =
                                   IF Len(client.WindowIds) < 1 THEN 0
                                   ELSE client.WindowIds[1]]
          /\ pc' = [pc EXCEPT ![p] = "b_mustget"]
          /\ UNCHANGED <<ret, post>>

\* lines 105-115: DBGetSingleton, the check for windows, the first window
BootGet(p) ==
    /\ pc[p] = "b_get"
    /\ UNCHANGED <<view, client, blocks, observers, inbox,
                   op, arg, journaled, journal, trace, pre>>
    /\ \/ BootReturn(p, ErrFindClient)
       \/ IF Len(client.WindowIds) < 1
          THEN BootReturn(p, ErrNoWindows)
          ELSE /\ loc' = [loc EXCEPT ![p].client = client,
                                     ![p].windowId = client.WindowIds[1]]
               /\ pc' = [pc EXCEPT ![p] = "b_mustget"]
               /\ UNCHANGED <<ret, post>>

\* the error of the must-get is noted but the function does not return
BootMustGet_ErrorNotReturned(p) ==
    /\ pc[p] = "b_mustget"
    /\ UNCHANGED <<view, client, blocks, observers, inbox,
                   op, arg, journaled, journal, trace, pre>>
    /\ \/ /\ loc' = [loc EXCEPT ![p].bootErr = ErrGetWindow, ![p].i = 0]
          /\ pc' = [pc EXCEPT ![p] = "b_create"]
          /\ UNCHANGED <<ret, post>>
       \/ /\ loc' = [loc EXCEPT ![p].tabId = ActiveTabId(loc[p].windowId),
                                ![p].i = 0]
          /\ pc' = [pc EXCEPT ![p] = "b_create"]
          /\ UNCHANGED <<ret, post>>

\* lines 117-122: DBMustGet of the window, its active tab.  The Window
\* objects are not written by these handlers: whether the id resolves is
\* the store's answer, either the window or an error.
BootMustGet(p) ==
    /\ pc[p] = "b_mustget"
    /\ UNCHANGED <<view, client, blocks, observers, inbox,
                   op, arg, journaled, journal, trace, pre>>
    /\ \/ BootReturn(p, ErrGetWindow)
       \/ /\ loc' = [loc EXCEPT ![p].tabId = ActiveTabId(loc[p].windowId),
                                ![p].i = 0]
          /\ pc' = [pc EXCEPT ![p] = "b_create"]
          /\ UNCHANGED <<ret, post>>

\* a failed creation that skips its step instead of returning
BootCreate_ContinueOnError(p) ==
    /\ pc[p] = "b_create"
    /\ loc[p].i < Len(starterLayout)
    /\ UNCHANGED <<view, client, observers, inbox, op, arg, journaled, pre>>
    /\ LET layoutAction == starterLayout[loc[p].i + 1]
           oid == NewOID(p, loc[p].i + 1)
       IN \/ /\ UNCHANGED <<blocks, journal>>
             /\ trace' = [trace EXCEPT ![p] = Append(@,
                   TraceRec("create", FALSE, NoOID, 0, loc[p].tabId, <<>>))]
             /\ IF loc[p].i + 1 < Len(starterLayout)
                THEN /\ loc' = [loc EXCEPT ![p].i = @ + 1]
                     /\ UNCHANGED <<pc, ret, post>>
                ELSE BootReturn(p, Nil)
          \/ /\ CreateBlock(p, loc[p].tabId, layoutAction.Meta, oid)
             /\ trace' = [trace EXCEPT ![p] = Append(@,
                   TraceRec("create", TRUE, oid, 0, loc[p].tabId, <<>>))]
             /\ loc' = [loc EXCEPT ![p].blockOID = oid]
             /\ pc' = [pc EXCEPT ![p] = "b_send"]
             /\ UNCHANGED <<ret, post>>

\* the blocks created through a context that does not carry the journal
BootCreate_FreshContext(p) ==
    /\ pc[p] = "b_create"
    /\ loc[p].i < Len(starterLayout)
    /\ UNCHANGED <<view, client, observers, inbox, op, arg, journaled, pre>>
    /\ LET layoutAction == starterLayout[loc[p].i + 1]
           oid == NewOID(p, loc[p].i + 1)
       IN \/ /\ UNCHANGED <<blocks, journal>>
             /\ trace' = [trace EXCEPT ![p] = Append(@,
                   TraceRec("create", FALSE, NoOID, 0, loc[p].tabId, <<>>))]
             /\ BootReturn(p, ErrCreateBlock)
          \/ /\ blocks' = blocks \cup {[OID |-> oid, TabId |-> loc[p].tabId,
                                        Meta |-> layoutAction.Meta]}
             /\ UNCHANGED journal
             /\ trace' = [trace EXCEPT ![p] = Append(@,
                   TraceRec("create", TRUE, oid, 0, loc[p].tabId, <<>>))]
             /\ loc' = [loc EXCEPT ![p].blockOID = oid]
             /\ pc' = [pc EXCEPT ![p] = "b_send"]
             /\ UNCHANGED <<ret, post>>

\* a failed creation that discards what the journal collected so far
BootCreate_DropJournalOnError(p) ==
    /\ pc[p] = "b_create"
    /\ loc[p].i < Len(starterLayout)
    /\ UNCHANGED <<view, client, observers, inbox, op, arg, journaled, pre>>
    /\ LET layoutAction == starterLayout[loc[p].i + 1]
           oid == NewOID(p, loc[p].i + 1)
       IN \/ /\ UNCHANGED blocks
             /\ journal' = [journal EXCEPT ![p] = <<>>]
             /\ trace' = [trace EXCEPT ![p] = Append(@,
                   TraceRec("create", FALSE, NoOID, 0, loc[p].tabId, <<>>))]
             /\ BootReturn(p, ErrCreateBlock)
          \/ /\ CreateBlock(p, loc[p].tabId, layoutAction.Meta, oid)
             /\ trace' = [trace EXCEPT ![p] = Append(@,
                   TraceRec("create", TRUE, oid, 0, loc[p].tabId, <<>>))]
             /\ loc' = [loc EXCEPT ![p].blockOID = oid]
             /\ pc' = [pc EXCEPT ![p] = "b_send"]
             /\ UNCHANGED <<ret, post>>

\* lines 169-176: the block of step i is created
BootCreate(p) ==
    /\ pc[p] = "b_create"
    /\ loc[p].i < Len(starterLayout)
    /\ UNCHANGED <<view, client, observers, inbox, op, arg, journaled, pre>>
    /\ LET layoutAction == starterLayout[loc[p].i + 1]
           oid == NewOID(p, loc[p].i + 1)
       IN \/ /\ UNCHANGED <<blocks, journal>>
             /\ trace' = [trace EXCEPT ![p] = Append(@,
                   TraceRec("create", FALSE, NoOID, 0, loc[p].tabId, <<>>))]
             /\ BootReturn(p, ErrCreateBlock)
          \/ /\ CreateBlock(p, loc[p].tabId, layoutAction.Meta, oid)
             /\ trace' = [trace EXCEPT ![p] = Append(@,
                   TraceRec("create", TRUE, oid, 0, loc[p].tabId, <<>>))]
             /\ loc' = [loc EXCEPT ![p].blockOID = oid]
             /\ pc' = [pc EXCEPT ![p] = "b_send"]
             /\ UNCHANGED <<ret, post>>

\* lines 178-189 with the step whose index path the event carries: the
\* layout event of step i is sent, i++, and the loop either goes on or
\* the bootstrap returns nil
BootSendFull(p, step, w, oid) ==
    /\ pc[p] = "b_send"
    /\ UNCHANGED <<view, client, blocks, observers,
                   op, arg, journaled, journal, pre>>
    /\ LET layoutAction == starterLayout[step] IN
       /\ SendEventToWindow(p, w,
             LayoutEvent(loc[p].tabId, oid, layoutAction.IndexArr))
       /\ trace' = [trace EXCEPT ![p] = Append(@,
             TraceRec("send", TRUE, oid, w,
                      loc[p].tabId, layoutAction.IndexArr))]
    /\ IF loc[p].i + 1 < Len(starterLayout)
       THEN /\ loc' = [loc EXCEPT ![p].i = @ + 1]
            /\ pc' = [pc EXCEPT ![p] = "b_create"]
            /\ UNCHANGED <<ret, post>>
       ELSE /\ loc' = [loc EXCEPT ![p].i = @ + 1, ![p].bootErr = Nil]
            /\ IF op[p] = "AgreeTos"
               THEN Return(p, Nil, journal[p])
               ELSE Return(p, Nil, <<>>)

\* lines 178-189 with the step whose index path the event carries
BootSendWith(p, step) ==
    BootSendFull(p, step, loc[p].windowId, loc[p].blockOID)

\* every event carries the index path of the first step
BootSend_FirstPath(p) == BootSendWith(p, 1)

\* a send that reports an error when the window has no observer
BootSend_FailOnDrop(p) ==
    IF loc[p].windowId \in observers
    THEN BootSendWith(p, loc[p].i + 1)
    ELSE /\ pc[p] = "b_send"
         /\ UNCHANGED <<view, client, blocks, observers, inbox,
                        op, arg, journaled, journal, trace, pre>>
         /\ BootReturn(p, ErrCreateBlock)

\* the loop walks the layout from its last step to its first
BootSend_Reversed(p) == BootSendWith(p, Len(starterLayout) - loc[p].i)

\* every event goes to the window that is first in the persisted Client
\* at the time of the send
BootSend_CurrentFirstWindow(p) ==
    BootSendFull(p, loc[p].i + 1,
                 IF client.WindowIds = <<>> THEN loc[p].windowId
                 ELSE client.WindowIds[1],
                 loc[p].blockOID)

\* the event carries the id the block of the next step will get
BootSend_NextBlockId(p) ==
    BootSendFull(p, loc[p].i + 1, loc[p].windowId, NewOID(p, loc[p].i + 2))

\* a send that waits until the window has an observer
BootSend_BlocksOnNoObserver(p) ==
    /\ loc[p].windowId \in observers
    /\ BootSendWith(p, loc[p].i + 1)

\* lines 178-189
BootSend(p) == BootSendWith(p, loc[p].i + 1)

\* ------------------------------------------------ wsh view / wsh edit
\* cmd/wsh/cmd/wshcmd-view.go.  Strings the code inspects character by
\* character are sequences of one-character strings.
HttpPrefix == <<"h", "t", "t", "p", ":", "/", "/">>
HttpsPrefix == <<"h", "t", "t", "p", "s", ":", "/", "/">>

\* viewCmd.Use and editCmd.Use
ViewUse == "view {file|directory|URL}"
EditUse == "edit {file}"
Uses == {ViewUse, EditUse}

\* the arguments of a run: URLs of both schemes, a near-URL, an absolute
\* path, a relative path with and without a directory part
FileArgs ==
    { HttpPrefix \o <<"a">>,
      HttpsPrefix \o <<"a">>,
      <<"h", "t", "t", "p", ":", "/", "a">>,
      <<"/", "d", "/", "f">>,
      <<"d", "/", "f">>,
      <<"f">> }

\* RpcContext.Conn
Conns == {"", "conn1"}

\* the working directory of the process
Cwd == <<"/", "w">>

\* fs.ErrNotExist and the errors os.Stat returns (always a *fs.PathError)
ErrNotExist == "file does not exist"
StatErrs == {Nil, "PathError: file does not exist", "PathError: permission denied"}

ErrAbsFile == "getting absolute path"
ErrAbsParent == "getting absolute path of parent dir"
ErrParentNotExist == "parent directory does not exist"
ErrFileInfo == "getting file info"
ErrViewCommand == "running view command"

\* strings.HasPrefix
HasPrefix(s, prefix) ==
    /\ Len(s) >= Len(prefix)
    /\ SubSeq(s, 1, Len(prefix)) = prefix

\* index of the last separator of a path, 0 when it has none
LastSlash(path) ==
    LET idxs == {i \in 1..Len(path) : path[i] = "/"}
    IN IF idxs = {} THEN 0 ELSE CHOOSE i \in idxs : \A j \in idxs : j <= i

\* filepath.Dir of a clean path
Dir(path) ==
    LET last == LastSlash(path)
    IN IF last = 0 THEN <<".">>
       ELSE IF last = 1 THEN <<"/">>
       ELSE SubSeq(path, 1, last - 1)

\* filepath.Abs of a clean path: an absolute path is returned as it is, a
\* relative one is joined to the working directory
Abs(path) ==
    IF Len(path) > 0 /\ path[1] = "/" THEN path
    ELSE IF path = <<".">> THEN Cwd
    ELSE Cwd \o <<"/">> \o path

NoCmd == [Meta |-> {}, Magnified |-> FALSE]

\* the run before it starts: its argument, the command it was invoked
\* as, the connection and the --magnified flag
ViewStart(fileArg, use, conn, magnified) ==
    [pc |-> "start", fileArg |-> fileArg, Use |-> use, conn |-> conn,
     viewMagnified |-> magnified, wshCmd |-> NoCmd, requests |-> <<>>,
     rtnErr |-> NoResult, activity |-> <<>>]

\* no run of the command
NoView == [ViewStart(<<>>, ViewUse, "", FALSE) EXCEPT !.pc = "off"]

svcVars == <<client, blocks, observers, inbox,
             pc, op, arg, journaled, journal, loc, trace, ret, pre, post>>

\* return rtnErr; the deferred sendActivity("view", rtnErr == nil) runs
ViewReturn(err) ==
    view' = [view EXCEPT !.pc = "done", !.rtnErr = err,
                         !.activity = Append(@, <<"view", err = Nil>>)]

\* lines 81-86: the optional keys of the preview metadata; editKey is the
\* string cmd.Use is compared with
PreviewMeta(absFile, use, conn, editKey) ==
    {<<"view", "preview">>, <<"file", absFile>>}
        \cup (IF use = editKey THEN {<<"edit", TRUE>>} ELSE {})
        \cup (IF conn # "" THEN {<<"connection", conn>>} ELSE {})

\* lines 46-90 with the string cmd.Use is compared with: the request
\* data is built, or the run returns an error
ViewResolveWith(editKey) ==
    /\ view.pc = "start"
    /\ UNCHANGED svcVars
    /\ IF HasPrefix(view.fileArg, HttpPrefix) \/ HasPrefix(view.fileArg, HttpsPrefix)
       THEN view' = [view EXCEPT
                !.pc = "send",
                !.wshCmd = [Meta |-> {<<"view", "web">>, <<"url", view.fileArg>>},
                            Magnified |-> view.viewMagnified]]
       ELSE \E absErr \in BOOLEAN, parentErr \in BOOLEAN, statErr \in StatErrs :
              LET absFile == Abs(view.fileArg)
                  absParent == Abs(Dir(view.fileArg))
              IN IF absErr THEN ViewReturn(ErrAbsFile)
                 ELSE IF parentErr THEN ViewReturn(ErrAbsParent)
                 ELSE IF statErr = ErrNotExist THEN ViewReturn(ErrParentNotExist)
                 ELSE IF statErr # Nil THEN ViewReturn(ErrFileInfo)
                 ELSE view' = [view EXCEPT
                        !.pc = "send",
                        !.wshCmd = [Meta |-> PreviewMeta(absFile, view.Use,
                                                         view.conn, editKey),
                                    Magnified |-> view.viewMagnified]]

\* lines 46-90
ViewResolve == ViewResolveWith("edit")

\* lines 91-95: the CreateBlock request is sent and answered
ViewSend ==
    /\ view.pc = "send"
    /\ UNCHANGED svcVars
    /\ \E rpcErr \in BOOLEAN :
         LET sent == [view EXCEPT !.requests = Append(@,
                        [Command |-> "createblock", Data |-> view.wshCmd,
                         Timeout |-> 2000])]
             err == IF rpcErr THEN ErrViewCommand ELSE Nil
         IN view' = [sent EXCEPT !.pc = "done", !.rtnErr = err,
                                 !.activity = Append(@, <<"view", err = Nil>>)]

\* ------------------------------------------------------ specification
\* the duplicate-free window lists, up to renaming of the ids
InitWindowIds == {[k \in 1..n |-> k] : n \in 0..MaxWindows}

Init ==
    /\ client \in {[WindowIds |-> s, TosAgreed |-> 0] : s \in InitWindowIds}
    /\ blocks = {}
    /\ observers \in {{}, Windows}
    /\ inbox = [w \in Windows |-> [p \in Procs |-> <<>>]]
    /\ pc = [p \in Procs |-> "idle"]
    /\ op = [p \in Procs |-> "none"]
    /\ arg = [p \in Procs |-> 0]
    /\ journaled = [p \in Procs |-> FALSE]
    /\ journal = [p \in Procs |-> <<>>]
    /\ loc = [p \in Procs |-> InitLoc]
    /\ trace = [p \in Procs |-> <<>>]
    /\ ret = [p \in Procs |-> [err |-> NoResult, updates |-> <<>>]]
    /\ pre = [p \in Procs |-> Snap(NoClient, {})]
    /\ post = [p \in Procs |-> Snap(NoClient, {})]
    /\ view = NoView

Step(p) ==
    \/ \E w \in Windows : CallFocusWindow(p, w)
    \/ CallAgreeTos(p)
    \/ CallBootstrapStarterLayout(p)
    \/ FocusGet(p)
    \/ FocusUpdate(p)
    \/ AgreeGet(p)
    \/ AgreeUpdate(p)
    \/ BootGet(p)
    \/ BootMustGet(p)
    \/ BootCreate(p)
    \/ BootSend(p)

\* handlers run concurrently
Next == \E p \in Procs : Step(p)

Spec == Init /\ [][Next]_vars

\* no other call is in progress
Alone(p) == \A q \in Procs : q # p => pc[q] \in {"idle", "done"}

\* a call made when no other call is in progress
SeqCallFocusWindow(p, w) == Alone(p) /\ CallFocusWindow(p, w)

SeqCallAgreeTos(p) == Alone(p) /\ CallAgreeTos(p)

SeqCallBootstrapStarterLayout(p) == Alone(p) /\ CallBootstrapStarterLayout(p)

\* handlers run one after the other: a call is made only after the call
\* before it has returned
NextSeq ==
    \E p \in Procs :
        \/ \E w \in Windows : SeqCallFocusWindow(p, w)
        \/ SeqCallAgreeTos(p)
        \/ SeqCallBootstrapStarterLayout(p)
        \/ FocusGet(p)
        \/ FocusUpdate(p)
        \/ AgreeGet(p)
        \/ AgreeUpdate(p)
        \/ BootGet(p)
        \/ BootMustGet(p)
        \/ BootCreate(p)
        \/ BootSend(p)

SpecSeq == Init /\ [][NextSeq]_vars

\* an observer registers with the event bus for a window
Connect(w) ==
    /\ w \notin observers
    /\ observers' = observers \cup {w}
    /\ UNCHANGED <<client, blocks, inbox, pc, op, arg, journaled, journal,
                   loc, trace, ret, pre, post, view>>

\* the observer of a window goes away; what it received stays received
Disconnect(w) ==
    /\ w \in observers
    /\ observers' = observers \ {w}
    /\ UNCHANGED <<client, blocks, inbox, pc, op, arg, journaled, journal,
                   loc, trace, ret, pre, post, view>>

\* no other call is made in the whole behaviour
OnlyCall(p) == \A q \in Procs : q # p => pc[q] = "idle"

OneCallFocusWindow(p, w) == OnlyCall(p) /\ CallFocusWindow(p, w)

OneCallAgreeTos(p) == OnlyCall(p) /\ CallAgreeTos(p)

OneCallBootstrapStarterLayout(p) == OnlyCall(p) /\ CallBootstrapStarterLayout(p)

\* the steps of the handler call of p
Run(p) ==
    \/ FocusGet(p)
    \/ FocusUpdate(p)
    \/ AgreeGet(p)
    \/ AgreeUpdate(p)
    \/ BootGet(p)
    \/ BootMustGet(p)
    \/ BootCreate(p)
    \/ BootSend(p)

\* one handler call, while observers come and go at any time
NextBus ==
    \/ \E w \in Windows : Connect(w)
    \/ \E w \in Windows : Disconnect(w)
    \/ \E p \in Procs :
        \/ \E w \in Windows : OneCallFocusWindow(p, w)
        \/ OneCallAgreeTos(p)
        \/ OneCallBootstrapStarterLayout(p)
        \/ FocusGet(p)
        \/ FocusUpdate(p)
        \/ AgreeGet(p)
        \/ AgreeUpdate(p)
        \/ BootGet(p)
        \/ BootMustGet(p)
        \/ BootCreate(p)
        \/ BootSend(p)

SpecBus == Init /\ [][NextBus]_vars

\* the scheduler runs a handler call that can take a step
SpecFair == SpecBus /\ \A p \in Procs : WF_vars(Run(p))

\* one run of wsh view or wsh edit
InitView ==
    /\ client = [WindowIds |-> <<>>, TosAgreed |-> 0]
    /\ blocks = {}
    /\ observers = {}
    /\ inbox = [w \in Windows |-> [p \in Procs |-> <<>>]]
    /\ pc = [p \in Procs |-> "idle"]
    /\ op = [p \in Procs |-> "none"]
    /\ arg = [p \in Procs |-> 0]
    /\ journaled = [p \in Procs |-> FALSE]
    /\ journal = [p \in Procs |-> <<>>]
    /\ loc = [p \in Procs |-> InitLoc]
    /\ trace = [p \in Procs |-> <<>>]
    /\ ret = [p \in Procs |-> [err |-> NoResult, updates |-> <<>>]]
    /\ pre = [p \in Procs |-> Snap(NoClient, {})]
    /\ post = [p \in Procs |-> Snap(NoClient, {})]
    /\ view \in {ViewStart(f, u, c, m) :
                    f \in FileArgs, u \in Uses, c \in Conns, m \in BOOLEAN}

NextView == ViewResolve \/ ViewSend

SpecView == InitView /\ [][NextView]_vars

\* ------------------------------------------------------------ properties
Returned(p) == pc[p] = "done"

\* the call has entered BootstrapStarterLayout
InBoot(p) ==
    \/ pc[p] \in {"b_get", "b_mustget", "b_create", "b_send"}
    \/ loc[p].bootErr # NoResult

IsCreate(e) == e.kind = "create"
IsSend(e) == e.kind = "send"
IsMutation(e) == e.kind \in {"update", "create"} /\ e.ok

\* the block creations a call attempted, the events it sent, the store
\* mutations it performed, each in the order of issue
Creates(p) == SelectSeq(trace[p], IsCreate)
Sends(p) == SelectSeq(trace[p], IsSend)
Mutations(p) == SelectSeq(trace[p], IsMutation)
BootTrace(p) == SelectSeq(trace[p], LAMBDA e : e.kind # "update")

\* the persisted blocks a call created
BlocksOf(p) == {b \in blocks : b.OID[1] = p}
Persisted(oid) == \E b \in blocks : b.OID = oid

\* the index paths of the seven steps, as the specification lists them
StepPaths == << <<0>>, <<1>>, <<1, 1>>, <<1, 2>>, <<2>>, <<2, 1>>, <<2, 2>> >>

\* steps 1..n of a bootstrap were carried out: n blocks created and
\* persisted, n events sent to window w, the i-th event after the i-th
\* creation and before the next, carrying the i-th path and the i-th block
StepsDone(p, n, w) ==
    LET t == BootTrace(p) IN
    /\ Len(t) >= 2 * n
    /\ \A i \in 1..n :
          /\ t[2 * i - 1].kind = "create" /\ t[2 * i - 1].ok
          /\ Persisted(t[2 * i - 1].oid)
          /\ t[2 * i].kind = "send"
          /\ t[2 * i].windowId = w
          /\ t[2 * i].IndexArr = StepPaths[i]
          /\ t[2 * i].oid = t[2 * i - 1].oid
    /\ Cardinality({t[2 * i - 1].oid : i \in 1..n}) = n
    /\ w \in observers =>
          /\ Len(inbox[w][p]) >= n
          /\ \A i \in 1..n :
                /\ inbox[w][p][i].BlockId = t[2 * i].oid
                /\ inbox[w][p][i].IndexArr = StepPaths[i]
                /\ inbox[w][p][i].ActionType = "insertatindex"

\* C1: a bootstrap that returns nil (the client has a window, the window
\* resolves, every creation succeeds) has created exactly 7 blocks and
\* sent exactly 7 insert events, all to the first window of the client's
\* WindowIds; creation i precedes event i, the events are in step order,
\* event i carries path i of [0],[1],[1,1],[1,2],[2],[2,1],[2,2] and the
\* id of block i.
C1_SevenBlocksSevenEvents ==
    \A p \in Procs :
        loc[p].bootErr = Nil =>
            /\ Returned(p)
            /\ Len(pre[p].client.WindowIds) >= 1
            /\ Len(BootTrace(p)) = 2 * NumSteps
            /\ StepsDone(p, NumSteps, pre[p].client.WindowIds[1])
            /\ Cardinality(BlocksOf(p)) = NumSteps
            /\ Len(Sends(p)) = NumSteps
            /\ \A w \in Windows : Len(inbox[w][p]) \in {0, NumSteps}

C1_Witness ==
    \E p \in Procs :
        /\ op[p] = "BootstrapStarterLayout"
        /\ loc[p].bootErr = Nil
        /\ Len(inbox[pre[p].client.WindowIds[1]][p]) = NumSteps

\* step k is the first whose block creation failed
FailedAt(p, k) ==
    /\ Len(Creates(p)) = k
    /\ ~Creates(p)[k].ok

\* C2: when block creation fails at step k (1..7) the bootstrap returns an
\* error, the blocks of steps 1..k-1 stay persisted and their k-1 events
\* stay emitted, and there is no block and no event for step k or later.
C2_AbortAtFirstFailure ==
    \A p \in Procs :
        LET k == Len(Creates(p)) IN
        (k >= 1 /\ FailedAt(p, k)) =>
            /\ k <= NumSteps
            /\ Returned(p)
            /\ loc[p].bootErr = ErrCreateBlock
            /\ op[p] = "BootstrapStarterLayout" => ret[p].err = ErrCreateBlock
            /\ StepsDone(p, k - 1, pre[p].client.WindowIds[1])
            /\ Len(BootTrace(p)) = 2 * (k - 1) + 1
            /\ Cardinality(BlocksOf(p)) = k - 1
            /\ Len(Sends(p)) = k - 1
            /\ \A w \in Windows : Len(inbox[w][p]) \in {0, k - 1}

C2_Witness ==
    \E p \in Procs :
        /\ FailedAt(p, 4)
        /\ Returned(p)
        /\ Cardinality(BlocksOf(p)) = 3
        /\ Len(inbox[pre[p].client.WindowIds[1]][p]) = 3

\* C3: a bootstrap run while the client's WindowIds is empty returns an
\* error, creates no block and sends no event, and leaves the store as it
\* was when the bootstrap was entered.
C3_NoWindows ==
    \A p \in Procs :
        (InBoot(p) /\ Len(pre[p].client.WindowIds) = 0) =>
            /\ BootTrace(p) = <<>>
            /\ BlocksOf(p) = {}
            /\ \A w \in Windows : inbox[w][p] = <<>>
            /\ Returned(p) =>
                  /\ loc[p].bootErr \in {ErrNoWindows, ErrFindClient}
                  /\ post[p].blocks = pre[p].blocks
                  /\ post[p].client.WindowIds = pre[p].client.WindowIds
                  /\ op[p] = "BootstrapStarterLayout" =>
                        /\ ret[p].err = loc[p].bootErr
                        /\ post[p] = pre[p]

C3_Witness ==
    \E p \in Procs :
        /\ op[p] = "BootstrapStarterLayout"
        /\ Len(pre[p].client.WindowIds) = 0
        /\ Returned(p)
        /\ ret[p].err = ErrNoWindows

\* the list s with w moved to the front, stated without the code's helpers
MovedToFront(s, w) ==
    LET rest == SelectSeq(s, LAMBDA x : x # w) IN <<w>> \o rest

\* p ran FocusWindow and q ran AgreeTos, both returned nil, and no other
\* call was made
FocusAndAgree(p, q) ==
    /\ op[p] = "FocusWindow" /\ op[q] = "AgreeTos"
    /\ Returned(p) /\ ret[p].err = Nil
    /\ Returned(q) /\ ret[q].err = Nil
    /\ \A r \in Procs \ {p, q} : pc[r] = "idle"

\* p and q ran FocusWindow, both returned nil, and no other call was made
TwoFocus(p, q) ==
    /\ p # q
    /\ op[p] = "FocusWindow" /\ op[q] = "FocusWindow"
    /\ Returned(p) /\ ret[p].err = Nil
    /\ Returned(q) /\ ret[q].err = Nil
    /\ \A r \in Procs \ {p, q} : pc[r] = "idle"

\* C4: under any interleaving of FocusWindow(w), w in WindowIds, and
\* AgreeTos that both return nil, the persisted client has w first and the
\* TosAgreed that AgreeTos wrote; two concurrent FocusWindow calls leave
\* the WindowIds of one of the two serial orders.
C4_NoLostUpdate ==
    \A p, q \in Procs :
        /\ (FocusAndAgree(p, q) /\ arg[p] \in Range(client.WindowIds)) =>
              /\ client.WindowIds[1] = arg[p]
              /\ client.TosAgreed = loc[q].clientData.TosAgreed
        /\ TwoFocus(p, q) =>
              LET s0 == pre[1].client.WindowIds
                  F(s, w) == IF w \in Range(s) THEN MovedToFront(s, w) ELSE s
              IN client.WindowIds \in {F(F(s0, arg[p]), arg[q]),
                                       F(F(s0, arg[q]), arg[p])}

\* C5: the batch a successful AgreeTos returns has one record per store
\* mutation made through its context, in the order of issue: the client
\* update first, then the block creations of the bootstrap in step order,
\* and no other record.
C5_BatchInIssuanceOrder ==
    \A p \in Procs :
        (op[p] = "AgreeTos" /\ Returned(p) /\ ret[p].err = Nil) =>
            LET batch == ret[p].updates
                muts == Mutations(p)
            IN /\ Len(batch) = Len(muts)
               /\ Len(batch) = 1 + Cardinality(BlocksOf(p))
               /\ batch[1].OType = "client" /\ batch[1].OID = ClientOID
               /\ muts[1].kind = "update"
               /\ \A k \in 2..Len(batch) :
                     /\ batch[k].OType = "block"
                     /\ batch[k].OID = muts[k].oid
                     /\ muts[k].kind = "create"
                     /\ \E b \in BlocksOf(p) :
                           /\ b.OID = batch[k].OID
                           /\ b.Meta = starterLayout[k - 1].Meta

C5_Witness ==
    \E p \in Procs :
        /\ op[p] = "AgreeTos" /\ Returned(p) /\ ret[p].err = Nil
        /\ Len(ret[p].updates) = 1 + NumSteps

\* a store operation of the AgreeTos call p failed, in AgreeTos itself or in
\* the bootstrap it ran
AgreeFailed(p) ==
    \/ trace[p] = <<>>
    \/ \E k \in 1..Len(trace[p]) : ~trace[p][k].ok
    \/ loc[p].bootErr \notin {Nil, NoResult}

\* C6: AgreeTos returns a non-nil error in exactly the runs in which a
\* store operation it performed, directly or through the bootstrap, failed;
\* a bootstrap that ends in failure is surfaced to the caller of AgreeTos.
C6_BootstrapErrorSurfaced ==
    \A p \in Procs :
        (op[p] = "AgreeTos" /\ Returned(p)) =>
            (ret[p].err # Nil <=> AgreeFailed(p))

\* s without its element at (1-based) position i
RemoveAt(s, i) ==
    [k \in 1..(Len(s) - 1) |-> IF k < i THEN s[k] ELSE s[k + 1]]

\* C7: a FocusWindow(w) whose update succeeds, w at position i of
\* WindowIds, persists w followed by the previous list without position i:
\* same length, same ids, the others in their previous order; TosAgreed
\* and the rest of the store are unchanged.
C7_MoveToFront ==
    \A p \in Procs :
        (/\ op[p] = "FocusWindow" /\ Returned(p) /\ ret[p].err = Nil
         /\ arg[p] \in Range(pre[p].client.WindowIds)) =>
            LET old == pre[p].client.WindowIds
                new == post[p].client.WindowIds
                i == CHOOSE k \in 1..Len(old) : old[k] = arg[p]
            IN /\ new = <<arg[p]>> \o RemoveAt(old, i)
               /\ Len(new) = Len(old)
               /\ Range(new) = Range(old)
               /\ post[p].client.TosAgreed = pre[p].client.TosAgreed
               /\ post[p].blocks = pre[p].blocks

C7_Witness ==
    \E p \in Procs :
        /\ op[p] = "FocusWindow" /\ Returned(p) /\ ret[p].err = Nil
        /\ Len(pre[p].client.WindowIds) = 3
        /\ pre[p].client.WindowIds[3] = arg[p]
        /\ pre[p].client.TosAgreed # 0
        /\ client.WindowIds[1] = arg[p]

\* C8: in every reachable state the persisted WindowIds has no repeated id
\* and has the ids it started with.
C8_WindowIdsDuplicateFree ==
    /\ NoDup(client.WindowIds)
    /\ pc[1] # "idle" =>
          Range(client.WindowIds) = Range(pre[1].client.WindowIds)

\* two FocusWindow calls overlapped: the second write was made from a copy
\* read before the first write
C8_Witness ==
    \E p, q \in Procs :
        /\ TwoFocus(p, q)
        /\ arg[p] # arg[q]
        /\ Len(client.WindowIds) = 3
        /\ client.WindowIds[1] = arg[q]
        /\ client.WindowIds[2] # arg[p]
        /\ pre[1].client.WindowIds[1] \notin {arg[p], arg[q]}

\* C9: FocusWindow(w) run twice in succession, both returning nil, leaves
\* the WindowIds that running it once leaves.
C9_FocusIdempotent ==
    \A p, q \in Procs :
        (/\ q = p + 1
         /\ op[p] = "FocusWindow" /\ Returned(p) /\ ret[p].err = Nil
         /\ op[q] = "FocusWindow" /\ Returned(q) /\ ret[q].err = Nil
         /\ arg[p] = arg[q]) =>
            post[q].client.WindowIds = post[p].client.WindowIds

C9_Witness ==
    \E p, q \in Procs :
        /\ q = p + 1
        /\ op[p] = "FocusWindow" /\ Returned(p) /\ ret[p].err = Nil
        /\ op[q] = "FocusWindow" /\ Returned(q) /\ ret[q].err = Nil
        /\ arg[p] = arg[q]
        /\ Len(pre[p].client.WindowIds) = 3
        /\ pre[p].client.WindowIds[3] = arg[p]
        /\ client.WindowIds[1] = arg[p]

\* the client was read (GetClientData returned it)
ClientRead(p) ==
    /\ pc[p] \in {"f_update", "done"}
    /\ ret[p].err # ErrGetClientData

\* C10: FocusWindow(w) that finds w absent from the WindowIds it read
\* returns nil, issues no store update, and leaves the client record and
\* the rest of the store unchanged.
C10_AbsentIdIsNoOp ==
    \A p \in Procs :
        (/\ op[p] = "FocusWindow"
         /\ arg[p] \notin Range(pre[p].client.WindowIds)) =>
            /\ trace[p] = <<>>
            /\ journal[p] = <<>>
            /\ ClientRead(p) =>
                  /\ Returned(p)
                  /\ ret[p].err = Nil
                  /\ post[p] = pre[p]

C10_Witness ==
    \E p \in Procs :
        /\ op[p] = "FocusWindow"
        /\ arg[p] \notin Range(pre[p].client.WindowIds)
        /\ Len(pre[p].client.WindowIds) = 2
        /\ Returned(p) /\ ret[p].err = Nil


\* the update record of a mutation a call performed
RecordOf(e) ==
    UpdateRec("update", IF e.kind = "update" THEN "client" ELSE "block", e.oid)

\* C11: a call whose context was never wrapped by the journal (FocusWindow,
\* a direct BootstrapStarterLayout) has an empty journal and returns no
\* updates whatever it mutated, and the journal of a call holds records of
\* that call's own mutations only, never of a concurrently running call.
C11_NoJournalNoRecords ==
    \A p \in Procs :
        /\ op[p] \in {"FocusWindow", "BootstrapStarterLayout"} =>
              /\ ~journaled[p]
              /\ journal[p] = <<>>
              /\ ret[p].updates = <<>>
        /\ journaled[p] =>
              journal[p] = [k \in 1..Len(Mutations(p)) |-> RecordOf(Mutations(p)[k])]
        /\ \A k \in 1..Len(journal[p]) :
              journal[p][k].OType = "block" => journal[p][k].OID[1] = p

\* a direct bootstrap created its seven blocks with an empty journal while
\* an AgreeTos called in the middle of that run was collecting records
C11_Witness ==
    \E p \in Procs, q \in Procs :
        /\ op[p] = "BootstrapStarterLayout" /\ op[q] = "AgreeTos"
        /\ Returned(p) /\ ret[p].err = Nil
        /\ Cardinality(BlocksOf(p)) = NumSteps
        /\ journal[p] = <<>> /\ ret[p].updates = <<>>
        /\ ~Returned(q) /\ Len(journal[q]) >= 2
        /\ BlocksOf(p) # {} /\ pre[q].blocks # {} /\ pre[q].blocks # {b.OID : b \in BlocksOf(p)}


\* C12: when the bootstrap AgreeTos invoked fails at step k, the journal of
\* the AgreeTos context holds the Client update record followed by the
\* records of the blocks of steps 1..k-1, in step order, and no record for
\* step k or a later step; those blocks are persisted.
C12_JournalAfterFailure ==
    \A p \in Procs :
        LET k == Len(Creates(p)) IN
        (op[p] = "AgreeTos" /\ k >= 1 /\ ~Creates(p)[k].ok) =>
            /\ Returned(p)
            /\ Len(journal[p]) = k
            /\ journal[p][1] = UpdateRec("update", "client", ClientOID)
            /\ \A i \in 1..(k - 1) :
                  /\ Creates(p)[i].ok
                  /\ Creates(p)[i].oid = NewOID(p, i)
                  /\ journal[p][i + 1] = UpdateRec("update", "block", NewOID(p, i))
                  /\ Persisted(NewOID(p, i))
            /\ \A i \in k..NumSteps : ~Persisted(NewOID(p, i))

\* the bootstrap of an AgreeTos failed at step 4 after three records
C12_Witness ==
    \E p \in Procs :
        /\ op[p] = "AgreeTos"
        /\ FailedAt(p, 4)
        /\ Len(journal[p]) = 4


\* the errors BootstrapStarterLayout returns, all of them store errors
BootErrors == {ErrFindClient, ErrNoWindows, ErrGetWindow, ErrCreateBlock}

\* the events of p delivered to the observers, over all windows
Delivered(p) == [w \in Windows |-> Len(inbox[w][p])]

\* C13: a layout event sent to a window without an observer is dropped and
\* neither fails nor blocks the call: the send step can always be taken, the
\* bootstrap returns an error only after a failed store operation, a run
\* whose seven creations succeed returns success with seven persisted blocks
\* whatever was delivered, and sends change neither the blocks nor the Client.
C13_DroppedEventsHarmless ==
    \A p \in Procs :
        InBoot(p) =>
            LET c == Creates(p)
                okCreates == {i \in 1..Len(c) : c[i].ok}
            IN
            /\ pc[p] = "b_send" => ENABLED BootSend(p)
            /\ loc[p].bootErr \in {NoResult, Nil} \cup BootErrors
            /\ loc[p].bootErr = ErrCreateBlock =>
                  /\ trace[p] # <<>>
                  /\ trace[p][Len(trace[p])].kind = "create"
                  /\ ~trace[p][Len(trace[p])].ok
            /\ (Len(Sends(p)) = NumSteps) =>
                  /\ Returned(p)
                  /\ loc[p].bootErr = Nil
                  /\ Cardinality(BlocksOf(p)) = NumSteps
            /\ blocks = BlocksOf(p)
            /\ Cardinality(blocks) = Cardinality(okCreates)
            /\ client = (IF op[p] = "AgreeTos" THEN loc[p].clientData
                         ELSE pre[p].client)
            /\ \A w \in Windows :
                  Delivered(p)[w] <= (IF w = loc[p].windowId THEN Len(Sends(p)) ELSE 0)

\* a bootstrap returned success with seven blocks although the observer of
\* its window was there for part of the run only: three of the seven events
\* were delivered, four were dropped
C13_Witness ==
    \E p \in Procs :
        /\ op[p] = "BootstrapStarterLayout"
        /\ Returned(p) /\ ret[p].err = Nil
        /\ Cardinality(BlocksOf(p)) = NumSteps
        /\ Len(Sends(p)) = NumSteps
        /\ Delivered(p)[loc[p].windowId] = 3
        /\ loc[p].windowId \notin observers


\* the path of the node a path's node is inserted under
ParentPath(path) == SubSeq(path, 1, Len(path) - 1)

\* the index paths of the events a call emitted so far
EmittedPaths(p) == {Sends(p)[n].IndexArr : n \in 1..Len(Sends(p))}

\* C14: the index paths are in tree-construction order: the parent path of
\* every step whose path is longer than one is the path of an earlier step,
\* and at every point of a run, also after an abort at any step, every
\* emitted path longer than one was emitted after its parent path, so the
\* set of emitted paths is closed under taking the parent path.
C14_ParentBeforeChild ==
    /\ \A i \in 1..Len(starterLayout) :
          Len(starterLayout[i].IndexArr) > 1 =>
             \E j \in 1..(i - 1) :
                starterLayout[j].IndexArr = ParentPath(starterLayout[i].IndexArr)
    /\ \A p \in Procs :
          LET s == Sends(p) IN
          /\ \A n \in 1..Len(s) :
                Len(s[n].IndexArr) > 1 =>
                   \E m \in 1..(n - 1) : s[m].IndexArr = ParentPath(s[n].IndexArr)
          /\ \A path \in EmittedPaths(p) :
                Len(path) > 1 => ParentPath(path) \in EmittedPaths(p)

\* a run aborted at step 7 after emitting six paths, nested ones among them
C14_Witness ==
    \E p \in Procs :
        /\ FailedAt(p, NumSteps)
        /\ Returned(p)
        /\ Cardinality(EmittedPaths(p)) = NumSteps - 1
        /\ <<2, 1>> \in EmittedPaths(p)
        /\ <<2, 2>> \notin EmittedPaths(p)


\* C15: every block and event of one bootstrap run carries the same window
\* id and tab id: the window is the first of Client.WindowIds as the run
\* read it at its start, the tab is that window's ActiveTabId.  A
\* FocusWindow(w) that completed before the run started makes w the target;
\* a FocusWindow that interleaves with the steps redirects nothing.
C15_TargetFixedAtStart ==
    \A p \in Procs :
        InBoot(p) =>
            LET t == BootTrace(p) IN
            /\ \A n \in 1..Len(t) :
                  /\ t[n].tabId = loc[p].tabId
                  /\ t[n].kind = "send" => t[n].windowId = loc[p].windowId
            /\ t # <<>> =>
                  /\ loc[p].windowId = loc[p].client.WindowIds[1]
                  /\ loc[p].tabId = ActiveTabId(loc[p].windowId)
            /\ \A b \in BlocksOf(p) : b.TabId = loc[p].tabId
            /\ \A w \in Windows :
                  /\ w # loc[p].windowId => inbox[w][p] = <<>>
                  /\ \A n \in 1..Len(inbox[w][p]) :
                        inbox[w][p][n].TabId = loc[p].tabId
            /\ \A q \in Procs :
                  ( /\ q # p
                    /\ op[q] = "FocusWindow"
                    /\ Returned(q) /\ ret[q].err = Nil
                    /\ arg[q] \in Range(post[q].client.WindowIds)
                    /\ post[q].client = pre[p].client
                    /\ \A r \in Procs \ {p, q} : pc[r] = "idle"
                    /\ t # <<>> )
                  => loc[p].windowId = arg[q]

\* a FocusWindow of another window was called and completed in the middle
\* of a bootstrap run, and the run went on to its seventh event with the
\* window it started with
C15_Witness ==
    \E p \in Procs, q \in Procs :
        /\ op[p] = "BootstrapStarterLayout" /\ op[q] = "FocusWindow"
        /\ Returned(p) /\ ret[p].err = Nil /\ Len(Sends(p)) = NumSteps
        /\ Returned(q) /\ ret[q].err = Nil
        /\ arg[q] # loc[p].windowId
        /\ post[q].client.WindowIds[1] = arg[q]
        /\ client.WindowIds[1] = arg[q]
        /\ pre[q].blocks # {} /\ Cardinality(post[q].blocks) < NumSteps
        /\ Len(inbox[loc[p].windowId][p]) = NumSteps
        /\ inbox[arg[q]][p] = <<>>


\* C16: in every reachable state every emitted layout-insert event
\* references a block the same run created and persisted before it sent the
\* event, no two events of one run reference the same block, and the number
\* of events of a run is at most the number of blocks it created and smaller
\* by at most one.
C16_EventAfterItsBlock ==
    \A p \in Procs :
        LET t == trace[p]
            s == Sends(p)
        IN
        /\ \A n \in 1..Len(t) :
              t[n].kind = "send" =>
                 /\ Persisted(t[n].oid)
                 /\ t[n].oid[1] = p
                 /\ \E m \in 1..(n - 1) :
                       t[m].kind = "create" /\ t[m].ok /\ t[m].oid = t[n].oid
        /\ \A m, n \in 1..Len(s) : s[m].oid = s[n].oid => m = n
        /\ Len(s) <= Cardinality(BlocksOf(p))
        /\ Cardinality(BlocksOf(p)) <= Len(s) + 1
        /\ \A w \in Windows : \A n \in 1..Len(inbox[w][p]) :
              /\ Persisted(inbox[w][p][n].BlockId)
              /\ inbox[w][p][n].BlockId[1] = p

\* two concurrent runs, one between creating its fourth block and sending
\* its event (four blocks, three events), the other with as many events as
\* blocks
C16_Witness ==
    \E p \in Procs, q \in Procs :
        /\ p # q
        /\ pc[p] = "b_send"
        /\ Len(Sends(p)) = 3 /\ Cardinality(BlocksOf(p)) = 4
        /\ pc[q] = "b_create"
        /\ Len(Sends(q)) = 2 /\ Cardinality(BlocksOf(q)) = 2


\* the call of p is in progress
Running(p) == pc[p] \notin {"idle", "done"}

\* the most store mutations and bus sends a handler issues
MaxOps(handler) ==
    IF handler = "FocusWindow" THEN 1
    ELSE IF handler = "AgreeTos" THEN 1 + 2 * NumSteps
    ELSE 2 * NumSteps

\* C17: every handler call reaches a terminal state.  A call in progress can
\* always take its next step (a store operation completes or fails, it never
\* blocks), a bootstrap attempts at most seven creations and every handler
\* issues a bounded number of operations, and under fair scheduling every
\* call in progress eventually returns.
C17_EveryCallTerminates ==
    /\ [](\A p \in Procs :
            /\ Running(p) => ENABLED Run(p)
            /\ Len(Creates(p)) <= NumSteps
            /\ Len(trace[p]) <= MaxOps(op[p])
            /\ Returned(p) => ret[p].err # NoResult)
    /\ \A p \in Procs : Running(p) ~> Returned(p)

\* an AgreeTos returned after the longest run there is: the Client update
\* and seven creations with their sends
C17_Witness ==
    \E p \in Procs :
        /\ op[p] = "AgreeTos"
        /\ Returned(p)
        /\ Len(trace[p]) = MaxOps("AgreeTos")


\* C18: when the first id of WindowIds does not resolve (the must-get of the
\* window fails), the bootstrap returns the error before step 1: the call
\* has returned, it attempted no creation and sent no event, no block of it
\* is persisted, nothing was delivered, and a direct call returns the error
\* and leaves the store as it found it.
C18_MustGetFails ==
    \A p \in Procs :
        loc[p].bootErr = ErrGetWindow =>
            /\ Returned(p)
            /\ loc[p].client.WindowIds # <<>>
            /\ loc[p].windowId = loc[p].client.WindowIds[1]
            /\ BootTrace(p) = <<>>
            /\ BlocksOf(p) = {}
            /\ \A w \in Windows : inbox[w][p] = <<>>
            /\ op[p] = "BootstrapStarterLayout" =>
                  /\ ret[p] = [err |-> ErrGetWindow, updates |-> <<>>]
                  /\ post[p] = pre[p]

\* a direct bootstrap whose window did not resolve, although its window had
\* an observer
C18_Witness ==
    \E p \in Procs :
        /\ op[p] = "BootstrapStarterLayout"
        /\ loc[p].bootErr = ErrGetWindow
        /\ ret[p].err = ErrGetWindow
        /\ loc[p].windowId \in observers
        /\ blocks = {}


\* the Client update of an AgreeTos call succeeded
Accepted(p) ==
    /\ op[p] = "AgreeTos"
    /\ trace[p] # <<>>
    /\ trace[p][1].kind = "update" /\ trace[p][1].ok

\* C19: in AgreeTos the acceptance is persisted before any layout work and
\* is never undone.  An AgreeTos call enters the bootstrap, creates a block or
\* sends an event only after its Client update succeeded; when the read or
\* the update fails it returns that error with no batch, nothing persisted
\* and the bootstrap not entered; once the update succeeded the call writes
\* the Client no more and TosAgreed stays set, also when the bootstrap fails
\* at any step.
C19_AcceptedBeforeLayout ==
    \A p \in Procs :
        op[p] = "AgreeTos" =>
            /\ (InBoot(p) \/ BootTrace(p) # <<>> \/ BlocksOf(p) # {}) => Accepted(p)
            /\ (Returned(p) /\ ~Accepted(p)) =>
                  /\ ret[p].err \in {ErrGetClientData, ErrUpdateClientData}
                  /\ ret[p].updates = <<>>
                  /\ ~InBoot(p)
                  /\ Mutations(p) = <<>>
            /\ Accepted(p) =>
                  /\ \A n \in 2..Len(trace[p]) : trace[p][n].kind # "update"
                  /\ loc[p].clientData.TosAgreed # 0
                  /\ client.TosAgreed # 0
                  /\ Returned(p) =>
                        /\ post[p].client.TosAgreed = loc[p].clientData.TosAgreed
                        /\ ret[p].err = Nil


\* the argument of the run is a URL
IsUrl(fileArg) == HasPrefix(fileArg, HttpPrefix) \/ HasPrefix(fileArg, HttpsPrefix)

\* the errors of resolving the path and its parent directory
PathErrors == {ErrAbsFile, ErrAbsParent, ErrParentNotExist, ErrFileInfo}

\* C20: viewRun sends at most one CreateBlock request.  For an argument that
\* starts with http:// or https:// its metadata is exactly view=web and
\* url=argument; otherwise it is view=preview and file=the absolute path,
\* plus connection when a connection is set, plus edit=true when, and only
\* when, the command invoked is the edit command.  When resolving the path
\* or its parent directory fails an error is returned and no request is sent.
C20_ViewRequest ==
    /\ Len(view.requests) <= 1
    /\ \A n \in 1..Len(view.requests) :
          /\ view.requests[n].Command = "createblock"
          /\ view.requests[n].Data.Meta =
                IF IsUrl(view.fileArg)
                THEN {<<"view", "web">>, <<"url", view.fileArg>>}
                ELSE {<<"view", "preview">>, <<"file", Abs(view.fileArg)>>}
                        \cup {<<"connection", view.conn>> : c \in {view.conn} \ {""}}
                        \cup {<<"edit", TRUE>> : u \in {view.Use} \cap {EditUse}}
    /\ view.pc = "done" =>
          /\ view.rtnErr \in PathErrors \cup {ErrViewCommand, Nil}
          /\ view.rtnErr \in PathErrors => view.requests = <<>>
          /\ view.rtnErr \in {ErrViewCommand, Nil} => Len(view.requests) = 1

====
